---------------------------- MODULE Spec2Model ----------------------------
(***************************************************************************)
(* Model of SRSFilterLogic.ApplySRSFilter                                  *)
(* (SRSFilter/SegmentEditorSRSFilterLib/SegmentEditorEffect.py).           *)
(*                                                                         *)
(* Spec models one call of ApplySRSFilter as a state machine.  The call is *)
(* single threaded; the only points at which other code runs are the calls *)
(* of self.logCallback (addLog -> slicer.app.processEvents), where a click *)
(* on the apply button reaches requestCancel.  Every such call is a        *)
(* position of pc, and the code between two calls is one action.           *)
(* Meshes are carried as the sequence of operations that produced them.    *)
(***************************************************************************)
EXTENDS Integers, Sequences, FiniteSets, TLC

VARIABLES pc, options, cancelRequested, x, trace, shrinkModelPD, solidPD,
          inputPolyData, polydata, segNode, models, result, errorLog,
          cancelSeen, before,
          caps, ray, solid, relax, large, image, gui

vars == <<pc, options, cancelRequested, x, trace, shrinkModelPD, solidPD,
          inputPolyData, polydata, segNode, models, result, errorLog,
          cancelSeen, before, caps, ray, solid, relax, large, image, gui>>

(* The state of one call of ApplySRSFilter, and the state of the stage     *)
(* algorithms that are modelled on concrete small meshes.                  *)
pipeVars == <<pc, options, cancelRequested, x, trace, shrinkModelPD, solidPD,
              inputPolyData, polydata, segNode, models, result, errorLog,
              cancelSeen, before>>
geoVars == <<caps, ray, solid, relax, large, image, gui>>

-----------------------------------------------------------------------------
(* Identifiers, lines 975-998 *)

ARG_OUTPUTTYPE == "outputType"
ARG_FILTERMODE == "filterMode"
ARG_ITERATIONSFIRSTSHRINKWRAP == "iterationsFirstShrinkwrap"
ARG_ITERATIONSSECONDSHRINKWRAP == "iterationsSecondShrinkwrap"
ARG_SMOOTHINGFACTOR == "smoothingFactor"

OUTPUT_MODEL == "MODEL"
OUTPUT_SEGMENTATION == "SEGMENTATION"

MODE_CONVEXHULL == "CONVEXHULL"
MODE_RAYCASTS == "RAYCASTS"
MODE_DEEPHULL == "DEEPHULL"
MODE_NONMANIFOLD == "NONMANIFOLD"
MODE_SOLIDIFIED == "SOLIDIFIED"

FilterModes == {MODE_CONVEXHULL, MODE_RAYCASTS, MODE_DEEPHULL,
                MODE_NONMANIFOLD, MODE_SOLIDIFIED}
OutputTypes == {OUTPUT_MODEL, OUTPUT_SEGMENTATION}

(* The parameter table of the effect, lines 22-34: the validated range of  *)
(* each numeric parameter the model carries.  smoothingFactor is in tenths.*)
MinIterationsFirstShrinkwrap == 1
MaxIterationsFirstShrinkwrap == 10
MinIterationsSecondShrinkwrap == 0
MaxIterationsSecondShrinkwrap == 10
MinSmoothingFactor == 0
MaxSmoothingFactor == 10

InRange(o) ==
    /\ o.iterationsFirstShrinkwrap >= MinIterationsFirstShrinkwrap
    /\ o.iterationsFirstShrinkwrap <= MaxIterationsFirstShrinkwrap
    /\ o.iterationsSecondShrinkwrap >= MinIterationsSecondShrinkwrap
    /\ o.iterationsSecondShrinkwrap <= MaxIterationsSecondShrinkwrap
    /\ o.smoothingFactor >= MinSmoothingFactor
    /\ o.smoothingFactor <= MaxSmoothingFactor

(* Bounds of the inputs the model enumerates. *)
MaxIterFirst == 2
MaxIterSecond == 1

(* Values a caller may pass in kwargs: the known ones and one unknown.     *)
UNKNOWN == "UNKNOWN"
ModeInputs == FilterModes \cup {UNKNOWN}
OutputInputs == OutputTypes \cup {UNKNOWN}
SmoothingInputs == {0, 2, 11}
KwargInputs ==
    [filterMode : ModeInputs,
     outputType : OutputInputs,
     iterationsFirstShrinkwrap : 0..MaxIterFirst,
     iterationsSecondShrinkwrap : 0..MaxIterSecond,
     smoothingFactor : SmoothingInputs]

(* The defaults of ApplySRSFilter, lines 335-351. *)
DefaultOptions ==
    [filterMode |-> MODE_SOLIDIFIED,
     outputType |-> OUTPUT_MODEL,
     iterationsFirstShrinkwrap |-> 3,
     iterationsSecondShrinkwrap |-> 5,
     smoothingFactor |-> 2]

-----------------------------------------------------------------------------
(* Meshes and surfaces as tokens *)

NoSurface == [from |-> "none", smoothing |-> 0, ops |-> <<>>]
(* The closed surface the segmentation converter makes of the labelmap     *)
(* under a smoothing factor.                                               *)
ConvertedSurface(p) == [from |-> "labelmap", smoothing |-> p, ops |-> <<>>]
(* A mesh the filter built, by the operations applied to the sphere.       *)
FilterMesh(ops) == [from |-> "filter", smoothing |-> 0, ops |-> ops]

(* Positions of pc at which self.logCallback is running. *)
LogPoints == {"started", "p1_relax_log", "p1_remesh_log", "ray_log",
              "p2_remesh_log", "p2_relax_log", "caps_log", "solid_log",
              "model_log", "segment_log", "sink_cancel_cleanup",
              "cancel_cleanup", "cleanup"}

-----------------------------------------------------------------------------
(* Init: the logic after __init__ (lines 295-298), over a segmentation     *)
(* node whose conversion parameter is whatever the caller left there.      *)

PipeInit ==
    /\ pc = "idle"
    /\ options = DefaultOptions
    /\ cancelRequested = FALSE
    /\ x = 0
    /\ trace = <<>>
    /\ shrinkModelPD = NoSurface
    /\ solidPD = NoSurface
    /\ inputPolyData = NoSurface
    /\ polydata = NoSurface
    /\ \E p \in {0, 2} :
         segNode = [smoothingFactor |-> p, closedSurface |-> ConvertedSurface(p)]
    /\ models = <<>>
    /\ result = "None"
    /\ errorLog = <<>>
    /\ cancelSeen = FALSE
    /\ before = [segNode |-> segNode, models |-> models]

(* A stage algorithm that a specification does not exercise. *)
Unused == [phase |-> "unused"]

Init ==
    /\ PipeInit
    /\ caps = Unused /\ ray = Unused /\ solid = Unused
    /\ relax = Unused /\ large = Unused /\ image = Unused /\ gui = Unused

-----------------------------------------------------------------------------
(* requestCancel, lines 300-302.  It runs when the caller runs: before the *)
(* call, or inside a logCallback.                                          *)

(* The body of requestCancel. *)
CallRequestCancel ==
    /\ cancelRequested' = TRUE
    /\ UNCHANGED <<pc, options, x, trace, shrinkModelPD, solidPD, inputPolyData,
                   polydata, segNode, models, result, errorLog, cancelSeen,
                   before>>

requestCancel ==
    /\ pc \in LogPoints \cup {"idle"}
    /\ CallRequestCancel
    /\ UNCHANGED geoVars

(* "if self.cancelRequested: cleanup(); return False" at the top level of  *)
(* ApplySRSFilter: control goes to cleanup's logCallback('').              *)
CancelReturn ==
    /\ pc' = "cancel_cleanup"
    /\ cancelSeen' = TRUE
    /\ result' = "False"

(* One cancellation check: the flag seen, or on to the step's logCallback. *)
CheckThen(logpc) ==
    IF cancelRequested
    THEN CancelReturn
    ELSE pc' = logpc /\ UNCHANGED <<cancelSeen, result>>

(* A step of the working mesh: shrinkModelPD is rewritten by op. *)
Apply(ops) ==
    /\ trace' = trace \o ops
    /\ shrinkModelPD' = FilterMesh(trace \o ops)
    /\ UNCHANGED solidPD

-----------------------------------------------------------------------------
(* ApplySRSFilter: entry, lines 331-353 and the logCallback of line 477.   *)

(* A call of ApplySRSFilter up to its first logCallback. *)
CallApplySRSFilter(kwargs) ==
    /\ cancelRequested' = FALSE
    /\ options' = [k \in DOMAIN DefaultOptions |->
                     IF k \in DOMAIN kwargs THEN kwargs[k] ELSE DefaultOptions[k]]
    /\ before' = [segNode |-> segNode, models |-> models]
    /\ pc' = "started"
    /\ UNCHANGED <<x, trace, shrinkModelPD, solidPD, inputPolyData, polydata, segNode,
                   models, result, errorLog, cancelSeen>>

ApplySRSFilter(kwargs) ==
    /\ pc = "idle"
    /\ CallApplySRSFilter(kwargs)
    /\ UNCHANGED geoVars

(* Lines 479-520: the conversion parameter is set and the closed surface   *)
(* regenerated on the caller's node, the input surface fetched, the sphere *)
(* built; then the head of the first loop (line 522).                      *)
Prepare ==
    /\ pc = "started"
    /\ segNode' = [smoothingFactor |-> options.smoothingFactor,
                   closedSurface |-> ConvertedSurface(options.smoothingFactor)]
    /\ inputPolyData' = ConvertedSurface(options.smoothingFactor)
    /\ shrinkModelPD' = FilterMesh(<<>>)
    /\ UNCHANGED solidPD
    /\ x' = 0
    /\ pc' = IF 0 < options.iterationsFirstShrinkwrap
             THEN "p1_relax_check" ELSE "dispatch_convexhull"
    /\ UNCHANGED <<options, cancelRequested, trace, polydata, models, result,
                   errorLog, cancelSeen, before>>
    /\ UNCHANGED geoVars

-----------------------------------------------------------------------------
(* Terminal dispatch, lines 565-575, 734-744, 776-786, 959-972: the same   *)
(* branch at four places.  When filterMode names the stage just finished,  *)
(* the mesh goes to polydataToSegment or polydataToModel (whose return     *)
(* value is dropped) and cleanup() / return True follow; an unknown        *)
(* outputType logs an error and returns False.  Otherwise the run goes on  *)
(* at nextpc.                                                              *)

(* The dispatch with its two sinks exchanged. *)
TerminalDispatchSwapped(mode, mesh, nextpc) ==
    IF options.filterMode # mode
    THEN pc' = nextpc /\ UNCHANGED <<polydata, errorLog, result>>
    ELSE IF options.outputType = OUTPUT_SEGMENTATION
    THEN pc' = "model_check" /\ polydata' = mesh
         /\ UNCHANGED <<errorLog, result>>
    ELSE IF options.outputType = OUTPUT_MODEL
    THEN pc' = "segment_check" /\ polydata' = mesh
         /\ UNCHANGED <<errorLog, result>>
    ELSE /\ errorLog' = Append(errorLog, "unknown outputType")
         /\ result' = "False"
         /\ pc' = "done"
         /\ UNCHANGED polydata

(* The dispatch with the model sink as the branch of every other           *)
(* outputType.                                                             *)
TerminalDispatchElseModel(mode, mesh, nextpc) ==
    IF options.filterMode # mode
    THEN pc' = nextpc /\ UNCHANGED <<polydata, errorLog, result>>
    ELSE IF options.outputType = OUTPUT_SEGMENTATION
    THEN pc' = "segment_check" /\ polydata' = mesh
         /\ UNCHANGED <<errorLog, result>>
    ELSE pc' = "model_check" /\ polydata' = mesh
         /\ UNCHANGED <<errorLog, result>>

TerminalDispatch(mode, mesh, nextpc) ==
    IF options.filterMode # mode
    THEN pc' = nextpc /\ UNCHANGED <<polydata, errorLog, result>>
    ELSE IF options.outputType = OUTPUT_SEGMENTATION
    THEN pc' = "segment_check" /\ polydata' = mesh
         /\ UNCHANGED <<errorLog, result>>
    ELSE IF options.outputType = OUTPUT_MODEL
    THEN pc' = "model_check" /\ polydata' = mesh
         /\ UNCHANGED <<errorLog, result>>
    ELSE /\ errorLog' = Append(errorLog, "unknown outputType")
         /\ result' = "False"
         /\ pc' = "done"
         /\ UNCHANGED polydata

(* The dispatch after cap removal, lines 819-829: SEGMENTATION only logs   *)
(* an error, and cleanup() / return True follow it as they follow a sink.  *)
NonmanifoldDispatch(mesh, nextpc) ==
    IF options.filterMode # MODE_NONMANIFOLD
    THEN pc' = nextpc /\ UNCHANGED <<polydata, errorLog, result>>
    ELSE IF options.outputType = OUTPUT_SEGMENTATION
    THEN /\ errorLog' = Append(errorLog, "SEGMENTATION not possible for NONMANIFOLD")
         /\ result' = "True"
         /\ pc' = "cleanup"
         /\ UNCHANGED polydata
    ELSE IF options.outputType = OUTPUT_MODEL
    THEN pc' = "model_check" /\ polydata' = mesh
         /\ UNCHANGED <<errorLog, result>>
    ELSE /\ errorLog' = Append(errorLog, "unknown outputType")
         /\ result' = "False"
         /\ pc' = "done"
         /\ UNCHANGED polydata

-----------------------------------------------------------------------------
(* First shrinkwrap, lines 522-563 *)

P1RelaxCheck ==
    /\ pc = "p1_relax_check"
    /\ CheckThen("p1_relax_log")
    /\ UNCHANGED <<options, cancelRequested, x, trace, shrinkModelPD, solidPD,
                   inputPolyData, polydata, segNode, models, errorLog, before>>
    /\ UNCHANGED geoVars

(* The relaxation without the break of line 556. *)
P1RelaxNoBreak ==
    /\ pc = "p1_relax_log"
    /\ Apply(<<"relax1">>)
    /\ pc' = "p1_remesh_check"
    /\ UNCHANGED <<options, cancelRequested, x, inputPolyData, polydata,
                   segNode, models, result, errorLog, cancelSeen, before>>
    /\ UNCHANGED geoVars

(* Lines 531-556: every point moved, then the break of the last pass. *)
P1Relax ==
    /\ pc = "p1_relax_log"
    /\ Apply(<<"relax1">>)
    /\ pc' = IF x = options.iterationsFirstShrinkwrap - 1
             THEN "dispatch_convexhull" ELSE "p1_remesh_check"
    /\ UNCHANGED <<options, cancelRequested, x, inputPolyData, polydata,
                   segNode, models, result, errorLog, cancelSeen, before>>
    /\ UNCHANGED geoVars

P1RemeshCheck ==
    /\ pc = "p1_remesh_check"
    /\ CheckThen("p1_remesh_log")
    /\ UNCHANGED <<options, cancelRequested, x, trace, shrinkModelPD, solidPD,
                   inputPolyData, polydata, segNode, models, errorLog, before>>
    /\ UNCHANGED geoVars

(* Line 563, and the head of the loop for the next x. *)
P1Remesh ==
    /\ pc = "p1_remesh_log"
    /\ Apply(<<"remesh1">>)
    /\ x' = x + 1
    /\ pc' = IF x + 1 < options.iterationsFirstShrinkwrap
             THEN "p1_relax_check" ELSE "dispatch_convexhull"
    /\ UNCHANGED <<options, cancelRequested, inputPolyData, polydata,
                   segNode, models, result, errorLog, cancelSeen, before>>
    /\ UNCHANGED geoVars

DispatchConvexHull ==
    /\ pc = "dispatch_convexhull"
    /\ TerminalDispatch(MODE_CONVEXHULL, shrinkModelPD, "ray_check")
    /\ UNCHANGED <<options, cancelRequested, x, trace, shrinkModelPD, solidPD,
                   inputPolyData, segNode, models, cancelSeen, before>>
    /\ UNCHANGED geoVars

-----------------------------------------------------------------------------
(* Raycast, lines 579-744 *)

RaycastCheck ==
    /\ pc = "ray_check"
    /\ CheckThen("ray_log")
    /\ UNCHANGED <<options, cancelRequested, x, trace, shrinkModelPD, solidPD,
                   inputPolyData, polydata, segNode, models, errorLog, before>>
    /\ UNCHANGED geoVars

(* Lines 585-628: the large faces flagged, the mesh subdivided. *)
RaycastSubdivide ==
    /\ pc = "ray_log"
    /\ Apply(<<"largefaces", "subdivide">>)
    /\ pc' = "ray_project"
    /\ UNCHANGED <<options, cancelRequested, x, inputPolyData, polydata,
                   segNode, models, result, errorLog, cancelSeen, before>>
    /\ UNCHANGED geoVars

(* Lines 630-732: a check with no logCallback after it, then the           *)
(* projection, which runs only when some face was flagged (line 634).      *)
RaycastProject ==
    /\ pc = "ray_project"
    /\ IF cancelRequested
       THEN CancelReturn /\ UNCHANGED <<trace, shrinkModelPD, solidPD>>
       ELSE /\ \E anyLarge \in BOOLEAN :
                 IF anyLarge THEN Apply(<<"raycast">>)
                             ELSE UNCHANGED <<trace, shrinkModelPD, solidPD>>
            /\ pc' = "dispatch_raycasts"
            /\ UNCHANGED <<cancelSeen, result>>
    /\ UNCHANGED <<options, cancelRequested, x, inputPolyData, polydata,
                   segNode, models, errorLog, before>>
    /\ UNCHANGED geoVars

DispatchRaycasts ==
    /\ pc = "dispatch_raycasts"
    /\ TerminalDispatch(MODE_RAYCASTS, shrinkModelPD, "p2_remesh_check")
    /\ x' = 0
    /\ UNCHANGED <<options, cancelRequested, trace, shrinkModelPD, solidPD,
                   inputPolyData, segNode, models, cancelSeen, before>>
    /\ UNCHANGED geoVars

-----------------------------------------------------------------------------
(* Second shrinkwrap, lines 750-786 *)

P2RemeshCheck ==
    /\ pc = "p2_remesh_check"
    /\ CheckThen("p2_remesh_log")
    /\ UNCHANGED <<options, cancelRequested, x, trace, shrinkModelPD, solidPD,
                   inputPolyData, polydata, segNode, models, errorLog, before>>
    /\ UNCHANGED geoVars

(* Lines 757-760, and after the break the smoothing of line 774. *)
P2Remesh ==
    /\ pc = "p2_remesh_log"
    /\ IF x = options.iterationsSecondShrinkwrap
       THEN Apply(<<"remesh2", "smooth">>) /\ pc' = "dispatch_deephull"
       ELSE Apply(<<"remesh2">>) /\ pc' = "p2_relax_check"
    /\ UNCHANGED <<options, cancelRequested, x, inputPolyData, polydata,
                   segNode, models, result, errorLog, cancelSeen, before>>
    /\ UNCHANGED geoVars

P2RelaxCheck ==
    /\ pc = "p2_relax_check"
    /\ CheckThen("p2_relax_log")
    /\ UNCHANGED <<options, cancelRequested, x, trace, shrinkModelPD, solidPD,
                   inputPolyData, polydata, segNode, models, errorLog, before>>
    /\ UNCHANGED geoVars

(* A smoothing filter whose output is copied into the input surface. *)
P2RelaxIntoInput ==
    /\ pc = "p2_relax_log"
    /\ Apply(<<"relax2">>)
    /\ inputPolyData' = FilterMesh(Append(trace, "relax2"))
    /\ x' = x + 1
    /\ pc' = "p2_remesh_check"
    /\ UNCHANGED <<options, cancelRequested, polydata, segNode, models,
                   result, errorLog, cancelSeen, before>>
    /\ UNCHANGED geoVars

(* Lines 768-772: vtkSmoothPolyDataFilter with the working mesh as input 0 *)
(* and the input surface as input 1 (the source it reads); its output is   *)
(* copied into the working mesh.                                           *)
P2Relax ==
    /\ pc = "p2_relax_log"
    /\ Apply(<<"relax2">>)
    /\ x' = x + 1
    /\ pc' = "p2_remesh_check"
    /\ UNCHANGED <<options, cancelRequested, inputPolyData, polydata,
                   segNode, models, result, errorLog, cancelSeen, before>>
    /\ UNCHANGED geoVars

DispatchDeepHull ==
    /\ pc = "dispatch_deephull"
    /\ TerminalDispatch(MODE_DEEPHULL, shrinkModelPD, "caps_check")
    /\ UNCHANGED <<options, cancelRequested, x, trace, shrinkModelPD, solidPD,
                   inputPolyData, segNode, models, cancelSeen, before>>
    /\ UNCHANGED geoVars

-----------------------------------------------------------------------------
(* Remove caps, lines 790-829 *)

CapsCheck ==
    /\ pc = "caps_check"
    /\ CheckThen("caps_log")
    /\ UNCHANGED <<options, cancelRequested, x, trace, shrinkModelPD, solidPD,
                   inputPolyData, polydata, segNode, models, errorLog, before>>
    /\ UNCHANGED geoVars

RemoveCaps ==
    /\ pc = "caps_log"
    /\ Apply(<<"removecaps">>)
    /\ pc' = "dispatch_nonmanifold"
    /\ UNCHANGED <<options, cancelRequested, x, inputPolyData, polydata,
                   segNode, models, result, errorLog, cancelSeen, before>>
    /\ UNCHANGED geoVars

DispatchNonmanifold ==
    /\ pc = "dispatch_nonmanifold"
    /\ NonmanifoldDispatch(shrinkModelPD, "solid_check")
    /\ UNCHANGED <<options, cancelRequested, x, trace, shrinkModelPD, solidPD,
                   inputPolyData, segNode, models, cancelSeen, before>>
    /\ UNCHANGED geoVars

-----------------------------------------------------------------------------
(* Solidification, lines 833-972 *)

SolidCheck ==
    /\ pc = "solid_check"
    /\ CheckThen("solid_log")
    /\ UNCHANGED <<options, cancelRequested, x, trace, shrinkModelPD, solidPD,
                   inputPolyData, polydata, segNode, models, errorLog, before>>
    /\ UNCHANGED geoVars

(* Lines 840-955: the working mesh becomes its cleaned copy with normals  *)
(* (line 852); the solid is the output of the triangle filter.             *)
Solidify ==
    /\ pc = "solid_log"
    /\ trace' = Append(trace, "solidify")
    /\ shrinkModelPD' = FilterMesh(Append(trace, "normals"))
    /\ solidPD' = FilterMesh(Append(trace, "solidify"))
    /\ pc' = "dispatch_solidified"
    /\ UNCHANGED <<options, cancelRequested, x, inputPolyData, polydata,
                   segNode, models, result, errorLog, cancelSeen, before>>
    /\ UNCHANGED geoVars

(* Lines 959-972: the last dispatch; past it, 'unknown filterMode.' *)
DispatchSolidified ==
    /\ pc = "dispatch_solidified"
    /\ TerminalDispatch(MODE_SOLIDIFIED, solidPD, "unknown_mode")
    /\ UNCHANGED <<options, cancelRequested, x, trace, shrinkModelPD, solidPD,
                   inputPolyData, segNode, models, cancelSeen, before>>
    /\ UNCHANGED geoVars

UnknownFilterMode ==
    /\ pc = "unknown_mode"
    /\ errorLog' = Append(errorLog, "unknown filterMode.")
    /\ result' = "False"
    /\ pc' = "done"
    /\ UNCHANGED <<options, cancelRequested, x, trace, shrinkModelPD, solidPD,
                   inputPolyData, polydata, segNode, models, cancelSeen, before>>
    /\ UNCHANGED geoVars

-----------------------------------------------------------------------------
(* The sinks, lines 355-398.  Both are always called with smooth=False.    *)

(* Lines 356-358 and 374-376: the flag seen inside a sink.  The sink calls *)
(* cleanup() and returns False to ApplySRSFilter.                          *)
SinkCheck(logpc) ==
    IF cancelRequested
    THEN pc' = "sink_cancel_cleanup" /\ cancelSeen' = TRUE
    ELSE pc' = logpc /\ UNCHANGED cancelSeen

PolydataToModelCheck ==
    /\ pc = "model_check"
    /\ SinkCheck("model_log")
    /\ UNCHANGED <<options, cancelRequested, x, trace, shrinkModelPD, solidPD,
                   inputPolyData, polydata, segNode, models, result,
                   errorLog, before>>
    /\ UNCHANGED geoVars

(* Lines 364-371, then cleanup() and return True of the caller. *)
PolydataToModel ==
    /\ pc = "model_log"
    /\ models' = Append(models, polydata)
    /\ result' = "True"
    /\ pc' = "cleanup"
    /\ UNCHANGED <<options, cancelRequested, x, trace, shrinkModelPD, solidPD,
                   inputPolyData, polydata, segNode, errorLog, cancelSeen,
                   before>>
    /\ UNCHANGED geoVars

PolydataToSegmentCheck ==
    /\ pc = "segment_check"
    /\ SinkCheck("segment_log")
    /\ UNCHANGED <<options, cancelRequested, x, trace, shrinkModelPD, solidPD,
                   inputPolyData, polydata, segNode, models, result,
                   errorLog, before>>
    /\ UNCHANGED geoVars

(* Lines 382-395: the segment is replaced by one whose closed surface is   *)
(* the mesh; then cleanup() and return True of the caller.                 *)
PolydataToSegment ==
    /\ pc = "segment_log"
    /\ segNode' = [segNode EXCEPT !.closedSurface = polydata]
    /\ result' = "True"
    /\ pc' = "cleanup"
    /\ UNCHANGED <<options, cancelRequested, x, trace, shrinkModelPD, solidPD,
                   inputPolyData, polydata, models, errorLog, cancelSeen,
                   before>>
    /\ UNCHANGED geoVars

(* cleanup() inside a cancelled sink has returned; the sink's False is     *)
(* dropped by the caller (lines 567, 569, ...), which goes on to its own   *)
(* cleanup() and return True.                                              *)
SinkCancelled ==
    /\ pc = "sink_cancel_cleanup"
    /\ result' = "True"
    /\ pc' = "cleanup"
    /\ UNCHANGED <<options, cancelRequested, x, trace, shrinkModelPD, solidPD,
                   inputPolyData, polydata, segNode, models, errorLog,
                   cancelSeen, before>>
    /\ UNCHANGED geoVars

(* cleanup() has returned: the return statement. *)
Return ==
    /\ pc \in {"cleanup", "cancel_cleanup"}
    /\ pc' = "done"
    /\ UNCHANGED <<options, cancelRequested, x, trace, shrinkModelPD, solidPD,
                   inputPolyData, polydata, segNode, models, result,
                   errorLog, cancelSeen, before>>
    /\ UNCHANGED geoVars

-----------------------------------------------------------------------------

(* The steps of a call after its entry, for a known filterMode. *)
PipelineStep ==
    \/ Prepare
    \/ P1RelaxCheck \/ P1Relax \/ P1RemeshCheck \/ P1Remesh
    \/ DispatchConvexHull
    \/ RaycastCheck \/ RaycastSubdivide \/ RaycastProject
    \/ DispatchRaycasts
    \/ P2RemeshCheck \/ P2Remesh \/ P2RelaxCheck \/ P2Relax
    \/ DispatchDeepHull
    \/ CapsCheck \/ RemoveCaps
    \/ DispatchNonmanifold
    \/ SolidCheck \/ Solidify
    \/ DispatchSolidified
    \/ PolydataToModelCheck \/ PolydataToModel
    \/ PolydataToSegmentCheck \/ PolydataToSegment
    \/ SinkCancelled
    \/ Return

Next ==
    \/ \E kwargs \in KwargInputs : ApplySRSFilter(kwargs)
    \/ requestCancel
    \/ PipelineStep
    \/ UnknownFilterMode

Spec == Init /\ [][Next]_vars

-----------------------------------------------------------------------------
(* Frame of the stage specifications: the pipeline stays idle. *)
PipeIdle == PipeInit /\ segNode.smoothingFactor = 0
Abs(n) == IF n < 0 THEN -n ELSE n

-----------------------------------------------------------------------------
(* CapRemover, lines 796-817, on a concrete mesh.                          *)
(* caps.cells is the cell array of nonsolidPolyData (triangles over point  *)
(* ids 0..3), caps.distance[p] the value of                                *)
(* implicitDistance.EvaluateFunction at point p (signed, in integer        *)
(* units), caps.maxModelDistance the option.                               *)

MaxDistance == 2

CapPointIds == 0..3
CapMeshes ==
    { <<<<0, 1, 2>>, <<1, 3, 2>>>>,
      <<<<0, 1, 2>>, <<0, 2, 3>>, <<0, 3, 1>>>>,
      <<<<0, 1, 2>>, <<0, 2, 3>>, <<0, 3, 1>>, <<1, 3, 2>>>>,
      <<<<1, 3, 2>>>> }

CapsInit ==
    /\ PipeIdle
    /\ ray = Unused /\ solid = Unused
    /\ relax = Unused /\ large = Unused /\ image = Unused /\ gui = Unused
    /\ \E cells \in CapMeshes,
          distance \in [CapPointIds -> (-MaxDistance)..MaxDistance],
          maxModelDistance \in 0..MaxDistance :
         caps = [phase |-> "input", cells |-> cells, distance |-> distance,
                 maxModelDistance |-> maxModelDistance, nonsolid |-> <<>>]

(* The inner loop with only its first point looked at. *)
AnyPointBeyondFirstOnly(cell, p, distance, maxModelDistance) ==
    Abs(distance[cell[p]]) > maxModelDistance

(* Lines 808-814, the inner loop from point p of the cell on: whether some *)
(* point makes the loop reach DeleteCell.                                  *)
RECURSIVE AnyPointBeyond(_, _, _, _)
AnyPointBeyond(cell, p, distance, maxModelDistance) ==
    IF p > Len(cell) THEN FALSE
    ELSE IF Abs(distance[cell[p]]) > maxModelDistance THEN TRUE
    ELSE AnyPointBeyond(cell, p + 1, distance, maxModelDistance)

(* Lines 805-816, the outer loop from cell c on, followed by               *)
(* RemoveDeletedCells: the cells that are left, in their order.            *)
RECURSIVE DeleteCaps(_, _, _, _)
DeleteCaps(cells, c, distance, maxModelDistance) ==
    IF c > Len(cells) THEN <<>>
    ELSE IF AnyPointBeyond(cells[c], 1, distance, maxModelDistance)
    THEN DeleteCaps(cells, c + 1, distance, maxModelDistance)
    ELSE <<cells[c]>> \o DeleteCaps(cells, c + 1, distance, maxModelDistance)

CapRemover ==
    /\ caps.phase = "input"
    /\ caps' = [caps EXCEPT
                  !.phase = "done",
                  !.nonsolid = DeleteCaps(caps.cells, 1, caps.distance,
                                          caps.maxModelDistance)]
    /\ UNCHANGED <<ray, solid, relax, large, image, gui>>
    /\ UNCHANGED pipeVars

CapsNext == CapRemover

SpecCaps == CapsInit /\ [][CapsNext]_vars

-----------------------------------------------------------------------------
(* RaycastRefiner: the projection and the acceptance loop, lines 634-732,  *)
(* on a concrete mesh.  Points lie on one axis, with integer coordinates:  *)
(* ray.points[i] is point i of shrinkModelPD after subdivision, ray.cells  *)
(* its triangles, ray.normals[i] the point normal, ray.surface the places  *)
(* where the axis meets inputPolyData, ray.largeCells the number of ids in *)
(* largeCellIds and ray.largePointIds the set built in lines 640-646;      *)
(* ray.origin keeps the points as they were before the stage.              *)

MaxCoord == 2

RayMeshes ==
    { [ids |-> 0..2, cells |-> <<<<0, 1, 2>>>>],
      [ids |-> 0..3, cells |-> <<<<0, 1, 2>>, <<1, 3, 2>>>>] }

(* The candidate sets the model draws: all points, or all but one. *)
LargeSets(ids) == {ids} \cup {ids \ {i} : i \in ids}

RayInputs ==
    UNION { [points : [m.ids -> 0..MaxCoord],
             origin : {[i \in m.ids |-> 0]},
             cells : {m.cells},
             normals : {[i \in m.ids |-> 1]},
             surface : SUBSET (0..MaxCoord),
             largeCells : {1},
             largePointIds : LargeSets(m.ids),
             raycastMaxLength : {1, MaxCoord},
             raycastMinLength : 0..1,
             raycastMaxHitDistance : 1..2,
             vert_location_dict : {<<>>},
             phase : {"input"}] : m \in RayMeshes }
    \cup
    UNION { [points : [m.ids -> 0..MaxCoord],
             origin : {[i \in m.ids |-> 0]},
             cells : {m.cells},
             normals : {[i \in m.ids |-> 1]},
             surface : SUBSET (0..MaxCoord),
             largeCells : {0},
             largePointIds : {{}},
             raycastMaxLength : {MaxCoord},
             raycastMinLength : {0},
             raycastMaxHitDistance : {2},
             vert_location_dict : {<<>>},
             phase : {"input"}] : m \in RayMeshes }

RayInit ==
    /\ PipeIdle
    /\ caps = Unused /\ solid = Unused
    /\ relax = Unused /\ large = Unused /\ image = Unused /\ gui = Unused
    /\ \E r \in RayInputs : ray = [r EXCEPT !.origin = r.points]

(* cellLocator.IntersectWithLine(a0, a1, ...), line 697: the value left in *)
(* glo, which is the first crossing of the segment from a0 to a1, and the  *)
(* initial [0, 0, 0] when there is none.                                   *)
IntersectWithLine(surface, a0, a1) ==
    LET lo == IF a0 <= a1 THEN a0 ELSE a1
        hi == IF a0 <= a1 THEN a1 ELSE a0
        crossings == {s \in surface : lo <= s /\ s <= hi}
    IN IF crossings = {} THEN 0
       ELSE CHOOSE s \in crossings :
              \A t \in crossings : Abs(s - a0) <= Abs(t - a0)

(* Lines 679-704: the ray of one point and its record. *)
CastRay(r, pointId) ==
    LET normal == r.normals[pointId] * (-1)
        vector == normal * r.raycastMaxLength
        a0 == r.points[pointId]
        a1 == a0 + vector
        glo == IntersectWithLine(r.surface, a0, a1)
    IN [res |-> glo # 0, loc |-> glo, length |-> Abs(glo - a0)]

(* The loops with a ray cast for every point, candidate or not. *)
RECURSIVE ProjectionOfAll(_, _, _, _)
ProjectionOfAll(r, c, p, dict) ==
    IF c > Len(r.cells) THEN dict
    ELSE IF p > Len(r.cells[c]) THEN ProjectionOfAll(r, c + 1, 1, dict)
    ELSE LET pointId == r.cells[c][p]
             entry == CastRay(r, pointId)
         IN ProjectionOfAll(r, c, p + 1,
                            [q \in DOMAIN dict \cup {pointId} |->
                               IF q = pointId THEN entry ELSE dict[q]])

(* Lines 664-704, the loops over the cells from cell c, point p on: the    *)
(* dictionary of projection results.                                       *)
RECURSIVE Projection(_, _, _, _)
Projection(r, c, p, dict) ==
    IF c > Len(r.cells) THEN dict
    ELSE IF p > Len(r.cells[c]) THEN Projection(r, c + 1, 1, dict)
    ELSE LET pointId == r.cells[c][p]
             entry ==
               IF pointId \notin r.largePointIds
                  \/ (pointId \in DOMAIN dict /\ dict[pointId].res = FALSE)
               THEN [res |-> FALSE, loc |-> 0, length |-> 0]
               ELSE CastRay(r, pointId)
         IN Projection(r, c, p + 1,
                       [q \in DOMAIN dict \cup {pointId} |->
                          IF q = pointId THEN entry ELSE dict[q]])

(* shrinkModelPD.GetPointCells(i, cellIds), line 716: the cells using i. *)
PointCells(cells, i) ==
    LET Uses(c) == \E p \in 1..Len(cells[c]) : cells[c][p] = i
        RECURSIVE From(_)
        From(c) == IF c > Len(cells) THEN <<>>
                   ELSE IF Uses(c) THEN <<c>> \o From(c + 1)
                   ELSE From(c + 1)
    IN From(1)

(* The loops of lines 718-732 without the test pointId != i. *)
RECURSIVE PointChangedSelf(_, _, _, _, _)
PointChangedSelf(r, dict, i, c, p) ==
    LET cellIds == PointCells(r.cells, i)
    IN IF c > Len(cellIds) THEN FALSE
       ELSE LET pointIds == r.cells[cellIds[c]]
            IN IF p > Len(pointIds)
               THEN PointChangedSelf(r, dict, i, c + 1, 1)
               ELSE LET pointId == pointIds[p]
                    IN IF /\ dict[pointId].res = TRUE
                          /\ Abs(-dict[i].loc + dict[pointId].loc)
                               < r.raycastMaxHitDistance
                       THEN TRUE
                       ELSE PointChangedSelf(r, dict, i, c, p + 1)

(* Lines 715-732, the loops over the cells of point i from its c-th cell,  *)
(* point p on: whether they reach SetPoint (pointChanged).                 *)
RECURSIVE PointChanged(_, _, _, _, _)
PointChanged(r, dict, i, c, p) ==
    LET cellIds == PointCells(r.cells, i)
    IN IF c > Len(cellIds) THEN FALSE
       ELSE LET pointIds == r.cells[cellIds[c]]
            IN IF p > Len(pointIds)
               THEN PointChanged(r, dict, i, c + 1, 1)
               ELSE LET pointId == pointIds[p]
                    IN IF /\ pointId # i
                          /\ dict[pointId].res = TRUE
                          /\ Abs(-dict[i].loc + dict[pointId].loc)
                               < r.raycastMaxHitDistance
                       THEN TRUE
                       ELSE PointChanged(r, dict, i, c, p + 1)

(* Lines 706-732: the points after the loop over all point ids. *)
Acceptance(r, dict) ==
    [i \in DOMAIN r.points |->
       IF /\ dict[i].res = TRUE
          /\ dict[i].length > r.raycastMinLength
          /\ PointChanged(r, dict, i, 1, 1)
       THEN dict[i].loc
       ELSE r.points[i]]

(* Lines 634-732 with some face flagged and raycastMaxLength > 0. *)
RaycastProjection ==
    /\ ray.phase = "input"
    /\ ray.largeCells > 0 /\ ray.raycastMaxLength > 0
    /\ LET dict == Projection(ray, 1, 1, <<>>)
       IN ray' = [ray EXCEPT !.phase = "done",
                             !.vert_location_dict = dict,
                             !.points = Acceptance(ray, dict)]
    /\ UNCHANGED <<caps, solid, relax, large, image, gui>>
    /\ UNCHANGED pipeVars

(* Line 634 false: the stage leaves the points alone. *)
RaycastSkipped ==
    /\ ray.phase = "input"
    /\ ~(ray.largeCells > 0 /\ ray.raycastMaxLength > 0)
    /\ ray' = [ray EXCEPT !.phase = "done"]
    /\ UNCHANGED <<caps, solid, relax, large, image, gui>>
    /\ UNCHANGED pipeVars

RayNext == RaycastProjection \/ RaycastSkipped

SpecRaycast == RayInit /\ [][RayNext]_vars

-----------------------------------------------------------------------------
(* Solidifier: lines 840-955 on a concrete mesh.  The mesh is made of flat *)
(* sheets at integer heights: a point is [xy, z, nan], where xy names its  *)
(* place in the plane and nan marks a coordinate that is not a number; the *)
(* cell normals, the 'Normals' cell array of vtkPolyDataNormals, are +1 or *)
(* -1 along the height axis.  solid.points and solid.polys are the cleaned *)
(* shrinkModelPD of line 854.                                              *)

MaxZ == 2
MaxThickness == 2

SolidMeshes ==
    { [name |-> "triangle", n |-> 3,
       polys |-> <<<<0, 1, 2>>>>,
       xy |-> <<0, 1, 2>>, sheet |-> <<1, 1, 1>>],
      [name |-> "patch", n |-> 4,
       polys |-> <<<<0, 1, 2>>, <<1, 3, 2>>>>,
       xy |-> <<0, 1, 2, 3>>, sheet |-> <<1, 1, 1, 1>>],
      [name |-> "fan", n |-> 4,
       polys |-> <<<<0, 1, 2>>, <<0, 2, 3>>, <<0, 3, 1>>>>,
       xy |-> <<0, 1, 2, 3>>, sheet |-> <<1, 1, 1, 1>>],
      [name |-> "sheets", n |-> 6,
       polys |-> <<<<0, 1, 2>>, <<3, 4, 5>>>>,
       xy |-> <<0, 1, 2, 0, 1, 2>>, sheet |-> <<1, 1, 1, 2, 2, 2>>],
      [name |-> "bowtie", n |-> 5,
       polys |-> <<<<0, 1, 2>>, <<0, 3, 4>>>>,
       xy |-> <<0, 1, 2, 3, 4>>, sheet |-> <<1, 1, 1, 1, 1>>],
      [name |-> "book", n |-> 5,
       polys |-> <<<<0, 1, 2>>, <<1, 0, 3>>, <<0, 1, 4>>>>,
       xy |-> <<0, 1, 2, 3, 4>>, sheet |-> <<1, 1, 1, 1, 1>>] }

(* The points of mesh m with its sheets at the heights zs. *)
MeshPoints(m, zs) ==
    [i \in 0..(m.n - 1) |->
       [xy |-> m.xy[i + 1], z |-> zs[m.sheet[i + 1]], nan |-> FALSE]]

(* vtkCleanPolyData, lines 841-843, has left no two points in one place. *)
Cleaned(points) ==
    \A i, j \in DOMAIN points : i # j => points[i] # points[j]

SolidInputs ==
    UNION { { [phase |-> "input",
               points |-> MeshPoints(m, zs),
               polys |-> m.polys,
               normals |-> ns,
               solidificationThickness |-> t,
               manifoldPoints |-> <<>>,
               manifoldPolys |-> <<>>,
               triangles |-> <<>>] :
              zs \in {f \in [1..2 -> 0..MaxZ] : Cleaned(MeshPoints(m, f))},
              ns \in [1..Len(m.polys) -> {-1, 1}],
              t \in 1..MaxThickness } : m \in SolidMeshes }

SolidInit ==
    /\ PipeIdle
    /\ caps = Unused /\ ray = Unused
    /\ relax = Unused /\ large = Unused /\ image = Unused /\ gui = Unused
    /\ solid \in SolidInputs

(* Equality of two coordinates, as == on floating-point numbers. *)
SamePoint(a, b) ==
    ~a.nan /\ ~b.nan /\ a.xy = b.xy /\ a.z = b.z

CellPoints(poly) == {poly[k] : k \in 1..Len(poly)}

(* vtkFeatureEdges with only BoundaryEdgesOn, lines 856-864: the edges of  *)
(* the polygons that no other polygon uses, in the order of the polygons.  *)
BoundaryEdges(polys) ==
    LET Lonely(c, a, b) ==
          \A d \in 1..Len(polys) :
             d # c => ~({a, b} \subseteq CellPoints(polys[d]))
        EdgesOf(c) ==
          LET poly == polys[c]
              Nxt(k) == IF k = Len(poly) THEN 1 ELSE k + 1
              RECURSIVE From(_)
              From(k) == IF k > Len(poly) THEN <<>>
                         ELSE IF Lonely(c, poly[k], poly[Nxt(k)])
                         THEN <<<<poly[k], poly[Nxt(k)]>>>> \o From(k + 1)
                         ELSE From(k + 1)
          IN From(1)
        RECURSIVE Cells(_)
        Cells(c) == IF c > Len(polys) THEN <<>>
                    ELSE EdgesOf(c) \o Cells(c + 1)
    IN Cells(1)

(* Lines 870-896: the inner copy of point pointID. *)
AddingPoint(s, pointID) ==
    LET cellIDs == PointCells(s.polys, pointID)
        normalsArray == [k \in 1..Len(cellIDs) |-> s.normals[cellIDs[k]] * (-1)]
        RECURSIVE Sum(_)
        Sum(k) == IF k > Len(normalsArray) THEN 0
                  ELSE normalsArray[k] + Sum(k + 1)
        dir_vec == Sum(1)
        length == Abs(dir_vec)
        here == s.points[pointID]
    IN IF length = 0
       THEN [xy |-> 0, z |-> 0, nan |-> TRUE]
       ELSE LET dir_vec_norm == dir_vec \div length
                proj_length == dir_vec_norm * normalsArray[1]
                dir_vec_finallenght == dir_vec_norm * proj_length
            IN [here EXCEPT !.z = here.z
                              + dir_vec_finallenght * s.solidificationThickness]

(* Lines 898-906: the polygons with reversed winding, on the inner ids. *)
AddingPoly(poly, numberOfPoints) ==
    [k \in 1..Len(poly) |-> poly[Len(poly) + 1 - k] + numberOfPoints]

(* Lines 908-916: the points of doubleSurfacePD. *)
DoubleSurfacePoints(s) ==
    LET numberOfPoints == Cardinality(DOMAIN s.points)
    IN [i \in 0..(2 * numberOfPoints - 1) |->
          IF i < numberOfPoints THEN s.points[i]
          ELSE AddingPoint(s, i - numberOfPoints)]

(* Lines 908-916: the polygons of doubleSurfacePD. *)
DoubleSurfacePolys(s) ==
    LET numberOfPoints == Cardinality(DOMAIN s.points)
    IN s.polys \o [c \in 1..Len(s.polys) |->
                     AddingPoly(s.polys[c], numberOfPoints)]

(* The lookup returning the last inserted point at the coordinate. *)
IsInsertedPointLast(points, coord) ==
    LET found == {i \in DOMAIN points : SamePoint(points[i], coord)}
    IN IF found = {} THEN -1
       ELSE CHOOSE i \in found : \A j \in found : j <= i

(* mergePoints.IsInsertedPoint, line 941, on the locator built at lines    *)
(* 924-927: the first inserted point with exactly this coordinate, or -1.  *)
IsInsertedPoint(points, coord) ==
    LET found == {i \in DOMAIN points : SamePoint(points[i], coord)}
    IN IF found = {} THEN -1
       ELSE CHOOSE i \in found : \A j \in found : i <= j

(* Lines 934-947: the quads of the boundary edges from edge e on. *)
RECURSIVE BoundaryQuads(_, _, _)
BoundaryQuads(s, edges, e) ==
    IF e > Len(edges) THEN <<>>
    ELSE LET numberOfPoints == Cardinality(DOMAIN s.points)
             matchingPointIDs ==
               [p \in 1..2 |-> IsInsertedPoint(DoubleSurfacePoints(s),
                                               s.points[edges[e][p]])]
         IN IF ~(\E p \in 1..2 : matchingPointIDs[p] = -1)
            THEN << <<matchingPointIDs[2], matchingPointIDs[1],
                      matchingPointIDs[1] + numberOfPoints,
                      matchingPointIDs[2] + numberOfPoints>> >>
                   \o BoundaryQuads(s, edges, e + 1)
            ELSE BoundaryQuads(s, edges, e + 1)

(* vtkTriangleFilter, lines 953-955: a triangle is passed on, a quad is    *)
(* cut along one of its diagonals; split[c] says which one for cell c.     *)
RECURSIVE TriangleFilter(_, _, _)
TriangleFilter(polys, split, c) ==
    IF c > Len(polys) THEN <<>>
    ELSE LET q == polys[c]
         IN (IF Len(q) = 3 THEN <<q>>
             ELSE IF split[c] = 0
             THEN << <<q[1], q[2], q[3]>>, <<q[1], q[3], q[4]>> >>
             ELSE << <<q[1], q[2], q[4]>>, <<q[2], q[3], q[4]>> >>)
            \o TriangleFilter(polys, split, c + 1)

(* Lines 840-955. *)
Solidification ==
    /\ solid.phase = "input"
    /\ \E manifoldPoints \in {DoubleSurfacePoints(solid)},
          doubleSurfacePolys \in {DoubleSurfacePolys(solid)},
          quads \in {BoundaryQuads(solid, BoundaryEdges(solid.polys), 1)} :
         \E cut \in [1..Len(quads) -> {0, 1}] :
            \E manifoldPolys \in {doubleSurfacePolys \o quads} :
               LET split == [c \in 1..Len(manifoldPolys) |->
                               IF c <= Len(doubleSurfacePolys) THEN 0
                               ELSE cut[c - Len(doubleSurfacePolys)]]
               IN solid' = [solid EXCEPT
                              !.phase = "done",
                              !.manifoldPoints = manifoldPoints,
                              !.manifoldPolys = manifoldPolys,
                              !.triangles = TriangleFilter(manifoldPolys, split, 1)]
    /\ UNCHANGED <<caps, ray, relax, large, image, gui>>
    /\ UNCHANGED pipeVars

SolidNext == Solidification

SpecSolid == SolidInit /\ [][SolidNext]_vars

-----------------------------------------------------------------------------
(* The vertex loop of the first shrinkwrap, lines 531-553, on concrete     *)
(* points.  Points lie on one axis; a coordinate is an integer number of   *)
(* hundredths of a length unit, so that the 0.01 of line 546 is 1.         *)
(* relax.points[i] is point i of shrinkModelPD, relax.surface the places   *)
(* where the axis meets inputPolyData, relax.offset the option             *)
(* offsetFirstShrinkwrap; relax.origin keeps the points as they were and   *)
(* relax.closest the answers of the locator.                               *)

NoiseFloor == 1
MaxPos == 3
MaxOffset == 2

RelaxPointIds == 0..1

RelaxInit ==
    /\ PipeIdle
    /\ caps = Unused /\ ray = Unused /\ solid = Unused
    /\ large = Unused /\ image = Unused /\ gui = Unused
    /\ \E points \in [RelaxPointIds -> 0..MaxPos],
          surface \in (SUBSET (0..MaxPos)) \ {{}},
          offset \in 0..MaxOffset :
         relax = [phase |-> "input", points |-> points, origin |-> points,
                  surface |-> surface, offset |-> offset,
                  closest |-> points]

(* cellLocator.FindClosestPoint, line 541: a point of the surface that no  *)
(* other point of the surface is nearer than.                              *)
ClosestPoints(surface, originPoint) ==
    {c \in surface :
       \A d \in surface : Abs(c - originPoint) <= Abs(d - originPoint)}

(* The rule with the offset laid on the far side of the closest point. *)
NewLocationBeyond(originPoint, closestPoint, offset) ==
    LET vector == closestPoint - originPoint
        vectorLength == Abs(vector)
    IN IF offset > 0 /\ vectorLength > NoiseFloor
       THEN closestPoint + ((vector \div vectorLength) * offset)
       ELSE closestPoint

(* The rule that keeps a point whose vector is not longer than the floor. *)
NewLocationKeepNear(originPoint, closestPoint, offset) ==
    LET vector == closestPoint - originPoint
        vectorLength == Abs(vector)
    IN IF vectorLength <= NoiseFloor THEN originPoint
       ELSE IF offset > 0
       THEN closestPoint - ((vector \div vectorLength) * offset)
       ELSE closestPoint

(* Lines 543-549. *)
NewLocation(originPoint, closestPoint, offset) ==
    LET vector == closestPoint - originPoint
        vectorLength == Abs(vector)
    IN IF offset > 0 /\ vectorLength > NoiseFloor
       THEN closestPoint - ((vector \div vectorLength) * offset)
       ELSE closestPoint

(* Lines 531-553: every point of the working mesh is set to its new place. *)
Relaxation ==
    /\ relax.phase = "input"
    /\ \E closest \in [RelaxPointIds -> relax.surface] :
         /\ \A i \in RelaxPointIds :
               closest[i] \in ClosestPoints(relax.surface, relax.points[i])
         /\ relax' = [relax EXCEPT
                        !.phase = "done",
                        !.closest = closest,
                        !.points = [i \in RelaxPointIds |->
                                      NewLocation(relax.points[i], closest[i],
                                                  relax.offset)]]
    /\ UNCHANGED <<caps, ray, solid, large, image, gui>>
    /\ UNCHANGED pipeVars

RelaxNext == Relaxation

SpecRelax == RelaxInit /\ [][RelaxNext]_vars

-----------------------------------------------------------------------------
(* Find large faces, lines 585-601, on a concrete mesh.  Points lie on a   *)
(* grid in the plane; large.points[i] is point i of shrinkModelPD after    *)
(* the first shrinkwrap, large.cells its triangles,                        *)
(* large.raycastSearchEdgeLength the option and large.largeCellIds the id  *)
(* list the loop fills (cell ids count from 0).                            *)

MaxGrid == 1
MaxEdgeLength == 1

LargeMeshes ==
    { [ids |-> 0..2, cells |-> <<<<0, 1, 2>>>>],
      [ids |-> 0..3, cells |-> <<<<0, 1, 2>>, <<1, 3, 2>>>>] }

LargeInit ==
    /\ PipeIdle
    /\ caps = Unused /\ ray = Unused /\ solid = Unused
    /\ relax = Unused /\ image = Unused /\ gui = Unused
    /\ \E m \in LargeMeshes :
         \E points \in [m.ids -> (0..MaxGrid) \X (0..MaxGrid)],
            length \in 0..MaxEdgeLength :
           large = [phase |-> "input", points |-> points, cells |-> m.cells,
                    raycastSearchEdgeLength |-> length,
                    largeCellIds |-> <<>>]

(* The square of np.linalg.norm(a - b), line 597. *)
Norm2(a, b) ==
    (a[1] - b[1]) * (a[1] - b[1]) + (a[2] - b[2]) * (a[2] - b[2])

(* Lines 591-600 for one cell: whether max(edgeLength) exceeds the option, *)
(* compared on the squares.  edgeLength holds one entry for each pa in     *)
(* range(len(pointsArray) - 1).                                            *)
MaxEdgeExceeds(points, cell, length) ==
    LET pointsArray == [p \in 1..Len(cell) |-> points[cell[p]]]
        edgeLength2 == [pa \in 1..(Len(pointsArray) - 1) |->
                          Norm2(pointsArray[pa], pointsArray[pa + 1])]
    IN \E pa \in DOMAIN edgeLength2 : edgeLength2[pa] > length * length

(* Lines 587-601, the loop from cell i on (cells[i + 1] is cell i). *)
RECURSIVE LargeCellIds(_, _, _, _)
LargeCellIds(points, cells, length, i) ==
    IF i >= Len(cells) THEN <<>>
    ELSE (IF MaxEdgeExceeds(points, cells[i + 1], length) THEN <<i>> ELSE <<>>)
           \o LargeCellIds(points, cells, length, i + 1)

FindLargeFaces ==
    /\ large.phase = "input"
    /\ large' = [large EXCEPT
                   !.phase = "done",
                   !.largeCellIds =
                      LargeCellIds(large.points, large.cells,
                                   large.raycastSearchEdgeLength, 0)]
    /\ UNCHANGED <<caps, ray, solid, relax, image, gui>>
    /\ UNCHANGED pipeVars

LargeNext == FindLargeFaces

SpecLarge == LargeInit /\ [][LargeNext]_vars

-----------------------------------------------------------------------------
(* remeshPolydata, lines 400-423: the image the mesh is rasterized into.   *)
(* image.bounds[i] is the pair (min, max) of polydata.GetBounds on axis i, *)
(* image.spacing the voxel size, both in whole length units; image.dim is  *)
(* the list dim and image.extent[i] the pair (first, last) of the extent   *)
(* of whiteImage on axis i when AllocateScalars is called.                 *)

MaxExtent == 3
MaxSpacing == 2

Axes == 1..3

(* The bounds of a mesh on one axis; those of a mesh without points are    *)
(* (1, -1).                                                                *)
AxisBounds == {<<0, e>> : e \in 0..MaxExtent} \cup {<<1, -1>>}

ImageInit ==
    /\ PipeIdle
    /\ caps = Unused /\ ray = Unused /\ solid = Unused
    /\ relax = Unused /\ large = Unused /\ gui = Unused
    /\ \E bounds \in [Axes -> AxisBounds], spacing \in 1..MaxSpacing :
         image = [phase |-> "input", bounds |-> bounds, spacing |-> spacing,
                  dim |-> [i \in Axes |-> 0],
                  extent |-> [i \in Axes |-> <<0, -1>>]]

(* math.ceil(a / b) for b > 0. *)
Ceil(a, b) == -((-a) \div b)

(* Lines 408-412 for one axis. *)
Dim(bounds, spacing) ==
    LET d == Ceil(bounds[2] - bounds[1], spacing) + 1
    IN IF d < 1 THEN 1 ELSE d

(* whiteImage.SetExtent(0, dim[0], 0, dim[1], 0, dim[2]), line 415.  It    *)
(* replaces the extent (0, dim - 1) that SetDimensions(dim) of line 413    *)
(* has set.                                                                *)
SetExtent(dim) == [i \in Axes |-> <<0, dim[i]>>]

(* Lines 401-423: the extent set last is the one that is allocated. *)
AllocateImage ==
    /\ image.phase = "input"
    /\ LET dim == [i \in Axes |-> Dim(image.bounds[i], image.spacing)]
       IN image' = [image EXCEPT !.phase = "allocated",
                                 !.dim = dim,
                                 !.extent = SetExtent(dim)]
    /\ UNCHANGED <<caps, ray, solid, relax, large, gui>>
    /\ UNCHANGED pipeVars

ImageNext == AllocateImage

SpecImage == ImageInit /\ [][ImageNext]_vars

-----------------------------------------------------------------------------
(* The apply button, lines 254-289.  A click calls onApply: from the event *)
(* loop when no call is active, or from slicer.app.processEvents inside    *)
(* addLog, the logCallback of the logic.  gui.text is applyButton.text,    *)
(* gui.undo the number of calls of saveStateForUndo, gui.calls the number  *)
(* of calls of ApplySRSFilter, gui.depth the number of them that have not  *)
(* returned and gui.cursor the number of override cursors that are set.    *)
(* gui.parameter holds the filterMode and outputType parameters of the     *)
(* effect as stored in the parameter node.                                 *)
(* An exception raised inside ApplySRSFilter leaves the call and onApply   *)
(* (neither has a try statement) and ends in the event loop.               *)

MaxRuns == 1

(* What the parameter node can hold: the slider values within the slider   *)
(* limits, lines 22-34, and the ids of the radio buttons, lines 37-47.      *)
GuiKwargs ==
    {k \in KwargInputs :
       /\ k.filterMode \in FilterModes
       /\ k.outputType \in OutputTypes
       /\ InRange(k)}

(* What onApply reads from the parameter node, lines 272-276. *)
StoredKwargs ==
    {k \in GuiKwargs :
       /\ k.filterMode = gui.parameter.filterMode
       /\ k.outputType = gui.parameter.outputType}

GuiInit ==
    /\ PipeIdle
    /\ caps = Unused /\ ray = Unused /\ solid = Unused
    /\ relax = Unused /\ large = Unused /\ image = Unused
    /\ \E parameter \in [filterMode : FilterModes, outputType : OutputTypes] :
         gui = [text |-> "Apply", undo |-> 0, calls |-> 0, depth |-> 0,
                cursor |-> 0, parameter |-> parameter]

(* Line 256 true: lines 257-258. *)
OnApplyCancel ==
    /\ CallRequestCancel
    /\ UNCHANGED gui

(* Lines 262-277, up to the first logCallback of the call. *)
OnApplyStart(kwargs) ==
    /\ gui' = [gui EXCEPT !.text = "Cancel", !.undo = gui.undo + 1,
                          !.calls = gui.calls + 1, !.depth = gui.depth + 1,
                          !.cursor = gui.cursor + 1]
    /\ CallApplySRSFilter(kwargs)

(* onApply without the test of line 256. *)
OnApplyUnguarded ==
    /\ pc \in LogPoints \cup {"idle"}
    /\ pc = "idle" => gui.calls < MaxRuns
    /\ \E kwargs \in StoredKwargs : OnApplyStart(kwargs)
    /\ UNCHANGED <<caps, ray, solid, relax, large, image>>

(* A click on the button: onApply, lines 254-277. *)
onApply ==
    /\ pc \in LogPoints \cup {"idle"}
    /\ IF gui.text = "Cancel"
       THEN OnApplyCancel
       ELSE gui.calls < MaxRuns
            /\ \E kwargs \in StoredKwargs : OnApplyStart(kwargs)
    /\ UNCHANGED <<caps, ray, solid, relax, large, image>>

(* ApplySRSFilter has returned: lines 279-280.  The locals of the call are *)
(* gone; the node, the models and the flag of the logic stay.              *)
OnApplyReturn ==
    /\ pc = "done"
    /\ gui.depth >= 1
    /\ gui' = [gui EXCEPT !.text = "Apply", !.depth = gui.depth - 1,
                          !.cursor = gui.cursor - 1]
    /\ pc' = "idle"
    /\ options' = DefaultOptions
    /\ x' = 0
    /\ trace' = <<>>
    /\ shrinkModelPD' = NoSurface
    /\ solidPD' = NoSurface
    /\ inputPolyData' = NoSurface
    /\ polydata' = NoSurface
    /\ result' = "None"
    /\ errorLog' = <<>>
    /\ cancelSeen' = FALSE
    /\ before' = [segNode |-> segNode, models |-> models]
    /\ UNCHANGED <<cancelRequested, segNode, models>>
    /\ UNCHANGED <<caps, ray, solid, relax, large, image>>

(* An exception leaves ApplySRSFilter at line 277 of onApply: lines 279-280 *)
(* are not executed, cleanup() of the logic is not called, the locals of    *)
(* both calls are gone.                                                     *)
OnApplyRaised ==
    /\ gui.depth >= 1
    /\ gui' = [gui EXCEPT !.depth = gui.depth - 1]
    /\ pc' = "idle"
    /\ options' = DefaultOptions
    /\ x' = 0
    /\ trace' = <<>>
    /\ shrinkModelPD' = NoSurface
    /\ solidPD' = NoSurface
    /\ inputPolyData' = NoSurface
    /\ polydata' = NoSurface
    /\ result' = "None"
    /\ errorLog' = <<>>
    /\ cancelSeen' = FALSE
    /\ before' = [segNode |-> segNode, models |-> models]
    /\ UNCHANGED <<cancelRequested, segNode, models>>
    /\ UNCHANGED <<caps, ray, solid, relax, large, image>>

(* Lines 706-710: vert_location_dict[i] for every point id i of the mesh.   *)
(* The dictionary holds the ids of the points of the triangle cells (line   *)
(* 668); for a point of shrinkModelPD that is in no triangle cell the       *)
(* lookup raises KeyError.  The mesh is not part of this specification, so  *)
(* the case is a choice.                                                    *)
HitRecordKeyError ==
    /\ pc = "ray_project"
    /\ ~cancelRequested
    /\ OnApplyRaised

(* Lines 876-891: normalsArray[0] for every point id of the cleaned mesh;   *)
(* for a point that GetPointCells gives no cell the list is empty and the   *)
(* index raises IndexError.                                                 *)
NormalsArrayIndexError ==
    /\ pc = "solid_log"
    /\ OnApplyRaised

GuiNext ==
    \/ onApply
    \/ PipelineStep
    \/ OnApplyReturn
    \/ HitRecordKeyError
    \/ NormalsArrayIndexError

SpecGui == GuiInit /\ [][GuiNext]_vars

-----------------------------------------------------------------------------
(* The options panel, lines 90-117 and 180-236: the radio buttons of the   *)
(* filter modes and of the output types.  gui.checked names the checked    *)
(* button of each group (the groups are exclusive), gui.enabled tells      *)
(* whether the 'Segmentation' button can be clicked.  updateGUIFromMRML is  *)
(* called by the application that hosts the effect; gui.hostUpdates tells  *)
(* whether it calls it from within setParameter when a parameter changes.  *)

(* Lines 226-236, for the two button groups. *)
disableOptionsLayout(g) ==
    IF g.parameter.filterMode = MODE_NONMANIFOLD
    THEN [g EXCEPT !.enabled = FALSE, !.checked.outputType = OUTPUT_MODEL]
    ELSE [g EXCEPT !.enabled = TRUE]

(* Lines 180-203, for the two button groups. *)
updateGUIFromMRML(g) ==
    disableOptionsLayout([g EXCEPT !.checked = g.parameter])

(* scriptedEffect.setParameter(id, value), lines 212 and 216. *)
setParameter(g, id, value) ==
    LET set == [g EXCEPT !.parameter[id] = value]
    IN IF g.hostUpdates /\ g.parameter[id] # value
       THEN updateGUIFromMRML(set)
       ELSE set

(* Lines 206-219. *)
updateMRMLFromGUI(g) ==
    LET mode == setParameter(g, "filterMode", g.checked.filterMode)
        typ == setParameter(mode, "outputType", mode.checked.outputType)
    IN disableOptionsLayout(typ)

PanelInit ==
    /\ PipeIdle
    /\ caps = Unused /\ ray = Unused /\ solid = Unused
    /\ relax = Unused /\ large = Unused /\ image = Unused
    /\ \E hostUpdates \in BOOLEAN :
         gui = [text |-> "Apply", undo |-> 0, calls |-> 0, depth |-> 0,
                cursor |-> 0,
                parameter |-> [filterMode |-> MODE_SOLIDIFIED,
                               outputType |-> OUTPUT_MODEL],
                checked |-> [filterMode |-> MODE_SOLIDIFIED,
                             outputType |-> OUTPUT_MODEL],
                enabled |-> TRUE,
                hostUpdates |-> hostUpdates]

(* The frame of an event of the panel. *)
PanelEvent ==
    /\ pc \in LogPoints \cup {"idle"}
    /\ UNCHANGED pipeVars
    /\ UNCHANGED <<caps, ray, solid, relax, large, image>>

(* A click on the radio button of a filter mode, line 103. *)
ClickFilterMode ==
    /\ PanelEvent
    /\ \E mode \in FilterModes :
         gui' = updateMRMLFromGUI([gui EXCEPT !.checked.filterMode = mode])

(* A click on the radio button of an output type, line 116; a disabled     *)
(* button takes no click.                                                  *)
ClickOutputType ==
    /\ PanelEvent
    /\ \E typ \in OutputTypes :
         /\ typ = OUTPUT_SEGMENTATION => gui.enabled
         /\ gui' = updateMRMLFromGUI([gui EXCEPT !.checked.outputType = typ])

(* The host calls updateGUIFromMRML. *)
HostUpdate ==
    /\ PanelEvent
    /\ gui' = updateGUIFromMRML(gui)

PanelNext == GuiNext \/ ClickFilterMode \/ ClickOutputType \/ HostUpdate

SpecPanel == PanelInit /\ [][PanelNext]_vars

-----------------------------------------------------------------------------
(* Vocabulary of the properties *)

(* The stage an operation of the trace belongs to, in pipeline order. *)
StageIndex(op) ==
    CASE op \in {"relax1", "remesh1"} -> 1
      [] op \in {"largefaces", "subdivide", "raycast"} -> 2
      [] op \in {"remesh2", "relax2", "smooth"} -> 3
      [] op = "removecaps" -> 4
      [] op = "solidify" -> 5

(* The stage a filterMode names. *)
ModeIndex(mode) ==
    CASE mode = MODE_CONVEXHULL -> 1
      [] mode = MODE_RAYCASTS -> 2
      [] mode = MODE_DEEPHULL -> 3
      [] mode = MODE_NONMANIFOLD -> 4
      [] mode = MODE_SOLIDIFIED -> 5

StagesIn(t) == {StageIndex(t[i]) : i \in 1..Len(t)}

StagesOrdered(t) ==
    \A i, j \in 1..Len(t) : i < j => StageIndex(t[i]) <= StageIndex(t[j])

ValidCombination(o) ==
    /\ o.filterMode \in FilterModes
    /\ o.outputType \in OutputTypes
    /\ ~(o.filterMode = MODE_NONMANIFOLD /\ o.outputType = OUTPUT_SEGMENTATION)

(* Nothing was handed to a sink: no model added, the segment not replaced. *)
NothingCommitted ==
    /\ models = before.models
    /\ segNode.closedSurface.from # "filter"

Running == pc # "idle"
Returned == pc = "done"

-----------------------------------------------------------------------------
(* C1: a run with filterMode=NONMANIFOLD and outputType=SEGMENTATION fails *)
(* before any geometry processing: no stage operation is ever executed,    *)
(* nothing is committed, and the call returns a failure, not success.      *)
ClaimC1 ==
    (Running /\ options.filterMode = MODE_NONMANIFOLD
             /\ options.outputType = OUTPUT_SEGMENTATION)
    => /\ trace = <<>>
       /\ NothingCommitted
       /\ (Returned => result = "False")

(* C2: a run that ends because the cancellation flag was seen commits no   *)
(* output and ends with an outcome that is neither the outcome of a        *)
(* successful run (True) nor that of a failed run (False).                 *)
ClaimC2 ==
    (Returned /\ cancelSeen)
    => /\ NothingCommitted
       /\ result # "True"
       /\ result # "False"

ClaimC4 ==
    (Returned /\ cancelSeen)
    => /\ segNode = before.segNode
       /\ models = before.models

(* C5: a call with a numeric parameter outside its validated range is      *)
(* rejected before execution: no stage runs, the caller's state is not     *)
(* touched, and a validation failure is reported.                          *)
ClaimC5 ==
    (Running /\ ~InRange(options))
    => /\ trace = <<>>
       /\ segNode = before.segNode
       /\ models = before.models
       /\ (Returned => result = "False" /\ errorLog # <<>>)

(* C6: with an unknown filterMode or an unknown outputType the run commits *)
(* nothing, at any point, and returns False.                               *)
TheoremC6 ==
    (Running /\ (options.filterMode \notin FilterModes
                 \/ options.outputType \notin OutputTypes))
    => /\ NothingCommitted
       /\ (Returned => result = "False")

WitnessC6 ==
    /\ Returned /\ ~cancelRequested
    /\ options.filterMode = MODE_RAYCASTS
    /\ options.outputType \notin OutputTypes
    /\ errorLog = <<"unknown outputType">>

(* C10: from its fetch at the start of the run on, the input surface is    *)
(* the surface that was fetched: no stage writes it.                       *)
TheoremC10 ==
    pc \notin {"idle", "started"}
    => inputPolyData = ConvertedSurface(options.smoothingFactor)

WitnessC10 ==
    /\ pc = "dispatch_solidified"
    /\ options.iterationsSecondShrinkwrap >= 1
    /\ \E i \in 1..Len(trace) : trace[i] = "relax2"
    /\ inputPolyData = ConvertedSurface(options.smoothingFactor)

-----------------------------------------------------------------------------
(* Cap removal *)

CellsOf(cells) == {cells[i] : i \in 1..Len(cells)}
PointsOfCell(cell) == {cell[i] : i \in 1..Len(cell)}
Beyond(p) == Abs(caps.distance[p]) > caps.maxModelDistance

(* C8: cap removal deletes exactly the faces that have a vertex whose      *)
(* absolute distance to the input surface exceeds maxModelDistance: every  *)
(* such face is gone, every other face is kept (once, no face is added).   *)
TheoremC8 ==
    caps.phase = "done"
    => /\ CellsOf(caps.nonsolid) =
            {f \in CellsOf(caps.cells) : \A p \in PointsOfCell(f) : ~Beyond(p)}
       /\ Len(caps.nonsolid) = Cardinality(CellsOf(caps.nonsolid))

(* One vertex beyond the threshold, on the last point of a face: exactly   *)
(* the faces touching it are removed, and another face stays.              *)
WitnessC8 ==
    /\ caps.phase = "done"
    /\ {p \in CapPointIds : Beyond(p)} = {3}
    /\ Len(caps.cells) = 3
    /\ caps.nonsolid = <<<<0, 1, 2>>>>

-----------------------------------------------------------------------------
(* Raycast acceptance *)

RayIds == DOMAIN ray.points
Projected == ray.phase = "done" /\ ray.largeCells > 0
Hit(i) == ray.vert_location_dict[i]

(* The vertices that share a face with i. *)
FaceNeighbours(i) ==
    {j \in RayIds \ {i} :
       \E c \in 1..Len(ray.cells) :
          {i, j} \subseteq {ray.cells[c][p] : p \in 1..Len(ray.cells[c])}}

(* An otherwise-valid hit: an intersection, longer than the minimum. *)
ValidHit(i) == Hit(i).res /\ Hit(i).length > ray.raycastMinLength

Relocated(i) == ray.points[i] = Hit(i).loc
Unmoved(i) == ray.points[i] = ray.origin[i]

Near(i, j) == Abs(Hit(i).loc - Hit(j).loc) < ray.raycastMaxHitDistance

(* C7, as stated: a vertex with an otherwise-valid hit is relocated to its *)
(* hit point if and only if a vertex sharing a face with it has an         *)
(* accepted hit (an intersection that passed the minimum-length test)      *)
(* within maxHitDistance of that hit point; otherwise it is not moved.     *)
ClaimC7 ==
    Projected =>
      \A i \in RayIds : ValidHit(i) =>
        IF \E j \in FaceNeighbours(i) : ValidHit(j) /\ Near(i, j)
        THEN Relocated(i)
        ELSE Unmoved(i)

(* C7, amended: the corroborating neighbour needs an intersection (a       *)
(* positive projection result) with its hit point less than maxHitDistance *)
(* away, whether or not its own hit passes the minimum-length test.        *)
TheoremC7 ==
    Projected =>
      \A i \in RayIds : ValidHit(i) =>
        IF \E j \in FaceNeighbours(i) : Hit(j).res /\ Near(i, j)
        THEN Relocated(i)
        ELSE Unmoved(i)

(* A relocated vertex all of whose corroborating neighbours fail the       *)
(* minimum-length test.                                                    *)
WitnessC7 ==
    /\ Projected
    /\ \E i \in RayIds :
         /\ ValidHit(i) /\ Relocated(i) /\ ~Unmoved(i)
         /\ \E j \in FaceNeighbours(i) : Hit(j).res /\ Near(i, j)
         /\ \A j \in FaceNeighbours(i) : Hit(j).res /\ Near(i, j) => ~ValidHit(j)

-----------------------------------------------------------------------------
(* Solidification watertightness *)

(* The number of faces that border the edge {a, b}. *)
FacesAtEdge(faces, a, b) ==
    Cardinality({c \in 1..Len(faces) : {a, b} \subseteq CellPoints(faces[c])})

EdgesOfFaces(faces) ==
    UNION { { {faces[c][k], faces[c][IF k = Len(faces[c]) THEN 1 ELSE k + 1]}
              : k \in 1..Len(faces[c]) } : c \in 1..Len(faces) }

(* The faces around v that can be reached from face c across edges at v. *)
RECURSIVE FanFrom(_, _, _)
FanFrom(faces, v, reached) ==
    LET more == {d \in 1..Len(faces) :
                   /\ v \in CellPoints(faces[d])
                   /\ \E c \in reached :
                        Cardinality(CellPoints(faces[c])
                                      \cap CellPoints(faces[d])) >= 2}
    IN IF more \subseteq reached THEN reached
       ELSE FanFrom(faces, v, reached \cup more)

(* An open manifold mesh: every edge borders one or two faces, some edge   *)
(* borders one, and the faces around every vertex form a single fan.       *)
OpenManifold(points, faces) ==
    /\ \A e \in EdgesOfFaces(faces) :
          \E a, b \in e : e = {a, b} /\ a # b /\ FacesAtEdge(faces, a, b) \in {1, 2}
    /\ \E e \in EdgesOfFaces(faces) :
          \E a, b \in e : e = {a, b} /\ FacesAtEdge(faces, a, b) = 1
    /\ \A v \in DOMAIN points :
          LET around == {c \in 1..Len(faces) : v \in CellPoints(faces[c])}
          IN /\ around # {}
             /\ \A c \in around : FanFrom(faces, v, {c}) = around

(* Every edge of the faces borders exactly two of them. *)
Watertight(faces) ==
    \A e \in EdgesOfFaces(faces) :
       \E a, b \in e : e = {a, b} /\ a # b /\ FacesAtEdge(faces, a, b) = 2

(* C9: for an open manifold input mesh, the solidified mesh (outer faces,  *)
(* inner faces with reversed winding, one quad per boundary edge, then     *)
(* triangulated) has no boundary edge: every edge of the result borders    *)
(* exactly two faces.                                                      *)
TheoremC9 ==
    solid.phase = "done" /\ OpenManifold(solid.points, solid.polys)
      => /\ Watertight(solid.triangles)
         /\ Len(solid.triangles)
              = 2 * Len(solid.polys) + 2 * Len(BoundaryEdges(solid.polys))

(* An open manifold mesh of two sheets has been solidified, where the      *)
(* inner copy of a point lies exactly on a boundary point of the other     *)
(* sheet.                                                                  *)
WitnessC9 ==
    /\ solid.phase = "done"
    /\ OpenManifold(solid.points, solid.polys)
    /\ Len(BoundaryEdges(solid.polys)) = 6
    /\ \E i, j \in DOMAIN solid.points :
         SamePoint(solid.manifoldPoints[i + Cardinality(DOMAIN solid.points)],
                   solid.points[j])

-----------------------------------------------------------------------------
(* Iteration structure of the two passes *)

OpsOfStage(t, k) == SelectSeq(t, LAMBDA op : StageIndex(op) = k)

IsPrefix(a, b) ==
    Len(a) <= Len(b) /\ \A i \in 1..Len(a) : a[i] = b[i]

(* relax, remesh, ..., relax: N relaxations, N-1 remeshes. *)
Pass1Ops(N) ==
    [i \in 1..(2 * N - 1) |-> IF i % 2 = 1 THEN "relax1" ELSE "remesh1"]

(* remesh, relax, ..., remesh, smooth: M+1 remeshes, M relaxations. *)
Pass2Ops(M) ==
    [i \in 1..(2 * M + 2) |->
       IF i = 2 * M + 2 THEN "smooth"
       ELSE IF i % 2 = 1 THEN "remesh2" ELSE "relax2"]

(* C11: in an uncancelled run, pass 1 with N = iterationsFirstShrinkwrap   *)
(* >= 1 is relax, remesh, ..., relax (N relaxations, N-1 remeshes, none    *)
(* after the last relaxation); pass 2 with M = iterationsSecondShrinkwrap  *)
(* is remesh, relax, ..., remesh (M+1 remeshes, M relaxations) followed by *)
(* exactly one smoothing filter.  At any time a pass is a prefix of that.  *)
TheoremC11 ==
    (Running /\ options.iterationsFirstShrinkwrap >= 1)
    => LET N == options.iterationsFirstShrinkwrap
           M == options.iterationsSecondShrinkwrap
           pass1 == OpsOfStage(trace, 1)
           pass2 == OpsOfStage(trace, 3)
       IN /\ IsPrefix(pass1, Pass1Ops(N))
          /\ IsPrefix(pass2, Pass2Ops(M))
          /\ (Returned /\ ~cancelSeen) => pass1 = Pass1Ops(N)
          /\ (Returned /\ ~cancelSeen
                /\ options.filterMode \notin {MODE_CONVEXHULL, MODE_RAYCASTS})
             => pass2 = Pass2Ops(M)
          /\ pass2 # <<>> => pass1 = Pass1Ops(N)
          /\ (\E i \in 1..Len(trace) : StageIndex(trace[i]) > 3)
             => pass2 = Pass2Ops(M)

WitnessC11 ==
    /\ Returned /\ ~cancelSeen
    /\ options.iterationsFirstShrinkwrap = 2
    /\ options.iterationsSecondShrinkwrap = 1
    /\ OpsOfStage(trace, 1) = <<"relax1", "remesh1", "relax1">>
    /\ OpsOfStage(trace, 3) = <<"remesh2", "relax2", "remesh2", "smooth">>

-----------------------------------------------------------------------------
(* Pass-1 relaxation *)

Displacement(i) == Abs(relax.closest[i] - relax.origin[i])

(* C12: a vertex v with closest point c is moved, if the offset d > 0 and  *)
(* |c - v| exceeds the noise floor, to c - normalize(c - v) * d, which is  *)
(* at distance exactly d from c on the side v came from; in every other    *)
(* case (d = 0, or |c - v| at or below the floor) it is set exactly to c.  *)
TheoremC12 ==
    relax.phase = "done" =>
      \A i \in RelaxPointIds :
        LET v == relax.origin[i]
            c == relax.closest[i]
            d == relax.offset
            new == relax.points[i]
        IN /\ c \in relax.surface
           /\ \A s \in relax.surface : Abs(c - v) <= Abs(s - v)
           /\ IF d > 0 /\ Abs(c - v) > NoiseFloor
              THEN /\ Abs(new - c) = d
                   /\ (v < c => new < c)
                   /\ (v > c => new > c)
              ELSE new = c

(* One vertex moved to the offset side of its closest point, the other,    *)
(* within the floor of the surface but not on it, set to its closest point.*)
WitnessC12 ==
    /\ relax.phase = "done"
    /\ relax.offset > 0
    /\ Displacement(0) > NoiseFloor
    /\ relax.points[0] # relax.closest[0]
    /\ Displacement(1) = NoiseFloor
    /\ relax.points[1] = relax.closest[1]

(* C13, as stated: a vertex whose displacement to its closest point is at  *)
(* or below the noise floor is left unmoved: its position after the step   *)
(* is its position before the step.                                        *)
ClaimC13 ==
    relax.phase = "done" =>
      \A i \in RelaxPointIds :
        Displacement(i) <= NoiseFloor => relax.points[i] = relax.origin[i]

(* C13, amended: such a vertex is set exactly to its closest point,        *)
(* whatever the offset, so it moves by its displacement, which is at most  *)
(* the noise floor; it keeps its position only if it was at its closest    *)
(* point already.                                                          *)
TheoremC13 ==
    relax.phase = "done" =>
      \A i \in RelaxPointIds :
        Displacement(i) <= NoiseFloor
        => /\ relax.points[i] = relax.closest[i]
           /\ Abs(relax.points[i] - relax.origin[i]) = Displacement(i)
           /\ (relax.points[i] = relax.origin[i] <=> Displacement(i) = 0)

(* With an offset, a vertex within the floor of the surface has moved onto *)
(* it, and a vertex on the surface has stayed.                             *)
WitnessC13 ==
    /\ relax.phase = "done"
    /\ relax.offset > 0
    /\ Displacement(0) = NoiseFloor
    /\ relax.points[0] # relax.origin[0]
    /\ relax.points[0] = relax.closest[0]
    /\ Displacement(1) = 0
    /\ relax.points[1] = relax.origin[1]

-----------------------------------------------------------------------------
(* Large faces *)

Flagged(i) == \E k \in 1..Len(large.largeCellIds) : large.largeCellIds[k] = i

(* The edges of a face, the one from its last point to its first included. *)
AllEdges(cell) ==
    {<<cell[k], cell[IF k = Len(cell) THEN 1 ELSE k + 1]>> : k \in 1..Len(cell)}

(* C14: a face is flagged as large if and only if the longest of all its   *)
(* edges exceeds raycastSearchEdgeLength; for a triangle all three edges   *)
(* count, the one that closes it from its last vertex to its first too.    *)
ClaimC14 ==
    large.phase = "done" =>
      \A i \in 0..(Len(large.cells) - 1) :
        Flagged(i) <=>
          \E e \in AllEdges(large.cells[i + 1]) :
             Norm2(large.points[e[1]], large.points[e[2]])
               > large.raycastSearchEdgeLength * large.raycastSearchEdgeLength

-----------------------------------------------------------------------------
(* Raycast: the vertices that stay *)

(* The places where the ray of vertex i, cast from where the vertex was    *)
(* against its normal over raycastMaxLength, meets the input surface.      *)
RayCrossings(i) ==
    LET a0 == ray.origin[i]
        a1 == a0 - ray.normals[i] * ray.raycastMaxLength
    IN {s \in ray.surface : (a0 <= s /\ s <= a1) \/ (a1 <= s /\ s <= a0)}

(* The length of the ray of vertex i up to its first crossing. *)
FirstCrossingLength(i) ==
    CHOOSE l \in {Abs(s - ray.origin[i]) : s \in RayCrossings(i)} :
       \A s \in RayCrossings(i) : l <= Abs(s - ray.origin[i])

(* C15: in the raycast stage a vertex that is not a candidate, a candidate *)
(* whose ray has no intersection within raycastMaxLength, and a candidate  *)
(* whose hit is not longer than raycastMinLength keep their position; a    *)
(* vertex that moves is a candidate and ends on a crossing of its ray; and *)
(* when no face was flagged as large no vertex moves.                      *)
TheoremC15 ==
    ray.phase = "done" =>
      /\ \A i \in RayIds :
            (\/ i \notin ray.largePointIds
             \/ RayCrossings(i) = {}
             \/ FirstCrossingLength(i) <= ray.raycastMinLength)
            => Unmoved(i)
      /\ \A i \in RayIds :
            ~Unmoved(i) => /\ i \in ray.largePointIds
                           /\ ray.points[i] \in RayCrossings(i)
      /\ ray.largeCells = 0 => ray.points = ray.origin

(* A stage that relocated a vertex and left in place a vertex that is not  *)
(* a candidate although its ray meets the surface far enough away, next to *)
(* a corroborating hit.                                                    *)
WitnessC15 ==
    /\ Projected
    /\ \E i \in RayIds : ~Unmoved(i)
    /\ \E i \in RayIds :
         /\ i \notin ray.largePointIds
         /\ RayCrossings(i) # {}
         /\ FirstCrossingLength(i) > ray.raycastMinLength
         /\ \E j \in FaceNeighbours(i) : Hit(j).res
         /\ Unmoved(i)

-----------------------------------------------------------------------------
(* Solidification: degenerate geometry and point ids *)

NumberOfPoints == Cardinality(DOMAIN solid.points)

(* The sum of the normals of the faces around point i. *)
RECURSIVE NormalSum(_, _)
NormalSum(cellIDs, k) ==
    IF k > Len(cellIDs) THEN 0
    ELSE solid.normals[cellIDs[k]] + NormalSum(cellIDs, k + 1)

ZeroNormalSum(i) == NormalSum(PointCells(solid.polys, i), 1) = 0

(* C16 (solidification): a vertex whose incident face normals sum to zero  *)
(* is handled by a local fallback, its inner copy left at the unmoved      *)
(* position, and no vertex of the result is undefined.                     *)
ClaimC16 ==
    solid.phase = "done" =>
      /\ \A i \in DOMAIN solid.manifoldPoints : ~solid.manifoldPoints[i].nan
      /\ \A i \in DOMAIN solid.points :
            ZeroNormalSum(i)
            => solid.manifoldPoints[i + NumberOfPoints] = solid.points[i]

-----------------------------------------------------------------------------
(* The volume of the remesher *)

(* The number of voxels of the allocated image along axis i. *)
VoxelsAlong(i) == image.extent[i][2] - image.extent[i][1] + 1

AxisLength(i) == image.bounds[i][2] - image.bounds[i][1]

(* C18: the volume the remesher allocates has exactly                      *)
(* ceil(extent / spacing) + 1 voxels along each axis, extent being the     *)
(* length of the bounding box on that axis, and exactly 1 voxel along an   *)
(* axis of zero extent.                                                    *)
ClaimC18 ==
    image.phase = "allocated" =>
      \A i \in Axes :
        /\ AxisLength(i) >= 0
           => VoxelsAlong(i) = Ceil(AxisLength(i), image.spacing) + 1
        /\ AxisLength(i) = 0 => VoxelsAlong(i) = 1

IdsValid(polys) ==
    \A c \in 1..Len(polys) :
       \A k \in 1..Len(polys[c]) :
          polys[c][k] >= 0 /\ polys[c][k] < 2 * NumberOfPoints

-----------------------------------------------------------------------------
(* Cancellation *)

(* The operations of the pipeline: vertex relaxation, remesh, smoothing    *)
(* filter, subdivision, raycast, cap removal, solidification.              *)
PipelineOps(t) == SelectSeq(t, LAMBDA op : op # "largefaces")

(* C19: once the flag is set during a run, no further operation begins.    *)
(* The flag is set while a progress message is shown; the operation that   *)
(* message announces is the one in progress.  So from a state with the     *)
(* flag set, a step taken from a progress message starts at most that one  *)
(* operation or sink call, and any other step starts no operation and no   *)
(* sink call.                                                              *)
ClaimC19 ==
    [][(cancelRequested /\ Running)
       => IF pc \in LogPoints
          THEN Len(PipelineOps(trace')) <= Len(PipelineOps(trace)) + 1
          ELSE trace' = trace /\ models' = models /\ segNode' = segNode]_vars

-----------------------------------------------------------------------------
(* The apply button *)

(* C20: at most one run is active at any time.  While a run started by     *)
(* onApply is in progress the button shows 'Cancel', and                   *)
(* no click, re-entrant or not, has saved another undo state or started    *)
(* another call of ApplySRSFilter: there is one undo state for each call,  *)
(* and never a call inside a call.                                         *)
TheoremC20 ==
    /\ gui.depth <= 1
    /\ gui.undo = gui.calls
    /\ gui.depth = 1 => gui.text = "Cancel"
    /\ gui.depth = 1 <=> Running

(* A click has been delivered inside a progress callback of a run that has *)
(* already relaxed the mesh: the flag is set, nothing else has changed.    *)
WitnessC20 ==
    /\ gui.text = "Cancel"
    /\ pc = "p1_relax_log"
    /\ cancelRequested
    /\ trace # <<>>
    /\ gui.undo = 1 /\ gui.calls = 1 /\ gui.depth = 1


(* C21: after every run started by onApply, whatever its outcome (success, *)
(* cancellation, error return or an exception raised inside                *)
(* ApplySRSFilter), the button shows 'Apply' again and the wait cursor is  *)
(* restored: whenever no call is active, the text is 'Apply' and no        *)
(* override cursor is set, so that the next click starts a run.            *)
ClaimC21 ==
    pc = "idle" => gui.text = "Apply" /\ gui.cursor = 0

-----------------------------------------------------------------------------
(* The options panel *)

=============================================================================
